---- MODULE Spec2Model ----
(***************************************************************************)
(* Investment-Research-Agent: the Streamlit chat application (app.py) and  *)
(* the two console check scripts, as state machines.                       *)
(*                                                                         *)
(*   Spec          one browser session of app.py in a process that serves  *)
(*                 other sessions too: the browser's events, the script    *)
(*                 thread going through app.py from one yield point or     *)
(*                 environment access to the next, and the steps of        *)
(*                 another session's run on os.environ.                    *)
(*   SpecScripts   one execution of check_google_genai.py or of            *)
(*                 check_toolbox_query_agent.py.                           *)
(*   SpecCallback  the handler built by get_streamlit_callback, called by  *)
(*                 the agent from several threads.                         *)
(***************************************************************************)
EXTENDS Integers, Sequences, FiniteSets, TLC

VARIABLES
    env,            \* os.environ["GEMINI_API_KEY"] of the app process
    dotenv,         \* the GEMINI_API_KEY entry of the .env file
    ss,             \* st.session_state: a function from the keys that are set
    question,       \* the selectbox's selection, as the browser holds it
    api_key_input,  \* the text of the sidebar input, as the browser holds it
    unsent,         \* the selection has not been sent to the agent yet
    page,           \* the widgets on the page
    pending,        \* the rerun request that is waiting, or NoRequest
    pc,             \* the line the script thread is at, or "idle"
    lastRun,        \* the run in progress, or else the most recent run
    enteredKey,     \* the first key line 58 stored, or None
    usedThreadIds,  \* every thread_id the session has held
    runs,           \* how many times the script has run in this session
    interrupts,     \* events that arrived while a run or a request was under way
    other,          \* where another session's run is in ensure_api_key
    sc,             \* state of a console check script
    cb              \* state of the callback handler and the threads using it

appVars == <<env, dotenv, ss, question, api_key_input, unsent, page, pending,
             pc, lastRun, enteredKey, usedThreadIds, runs, interrupts, other>>
vars == <<env, dotenv, ss, question, api_key_input, unsent, page, pending,
          pc, lastRun, enteredKey, usedThreadIds, runs, interrupts, other, sc, cb>>

-----------------------------------------------------------------------------
(* Python values *)

None == "None"
Unset == "<unset>"            \* the variable is not in os.environ

\* Python truthiness of an optional string
Truthy(x) == x \notin {None, Unset, ""}

\* os.getenv(name): None when the variable is not set
getenv(e) == IF e = Unset THEN None ELSE e

-----------------------------------------------------------------------------
(* Bounds *)

MaxChoice == 1        \* how many of the QUERIES the user picks from
MaxRuns == 3          \* runs of app.py in the session
MaxInterrupts == 1    \* events that arrive while a run or a request is under way
MaxScriptRuns == 2    \* script runs that build a callback handler

-----------------------------------------------------------------------------
(* app.py: module-level constants *)

SYSTEM_PROMPT == "You are a helpful investment research assistant. ..."

GREETING == "How can I help you? You can research companies, articles, people."

QUERIES == <<
    "What industries deal with neurological implants?",
    "List 5 companies in those industries with descriptions, filtered by California.",
    "Who is working at these companies?",
    "What were the news articles in January 2023 with positive sentiment? List top 5.",
    "Summarize these articles.",
    "Which 3 companies were mentioned in these articles?",
    "Who are the board members at these companies?" >>

SystemMessage(c) == [type |-> "system", content |-> c]
AIMessage(c) == [type |-> "ai", content |-> c]
HumanMessage(c) == [type |-> "human", content |-> c]

\* The inputs the environment supplies
Keys == {"k1", "k2"}
Typed == {"typed question"}
Selectable == {QUERIES[i] : i \in 1..MaxChoice}
Replies == {"r1", "r2"}

-----------------------------------------------------------------------------
(* st.session_state *)

Has(d, k) == k \in DOMAIN d

\* d[k] = v
Put(d, k, v) == [x \in DOMAIN d \cup {k} |-> IF x = k THEN v ELSE d[x]]

\* d.get(k, default)
Get(d, k, default) == IF Has(d, k) THEN d[k] ELSE default

EmptyState == [x \in {} |-> None]

\* f"thread-{n}"
ThreadName(n) == <<"thread-", n>>

InitialMessages == << SystemMessage(SYSTEM_PROMPT), AIMessage(GREETING) >>

-----------------------------------------------------------------------------
(* app.py: functions *)

\* load_dotenv(): a variable of the .env file is set when the environment
\* does not have it
load_dotenv(e, d) == IF e = Unset /\ d # Unset THEN d ELSE e

\* lines 21-26, executed at the start of every run n of the script: the tool
\* list and the MemorySaver are new objects in every run; loading the tools
\* from the Toolbox server may raise.
ModuleSetup(n, toolbox) ==
    IF toolbox = "raise"
    THEN [raised |-> TRUE]
    ELSE [raised |-> FALSE,
          tools |-> <<"load_toolset()", n>>,
          memory |-> <<"MemorySaver()", n>>]

\* initialize_llm(): os.environ["GEMINI_API_KEY"] raises KeyError when the
\* variable is not set
initialize_llm(e) ==
    IF e = Unset
    THEN [raised |-> "KeyError"]
    ELSE [raised |-> None,
          model |-> "gemini-2.5-flash", api_key |-> e,
          base_url |-> "https://generativelanguage.googleapis.com/v1beta/openai/"]

\* create_agent(): create_react_agent(llm, tools, checkpointer=memory), with
\* the module's tools and memory g
create_agent(e, g) ==
    LET llm == initialize_llm(e)
    IN  IF llm.raised # None
        THEN [raised |-> llm.raised]
        ELSE [raised |-> None, llm |-> llm,
              tools |-> g.tools, checkpointer |-> g.memory]

\* invoke_agent(messages, callbacks, thread_id): the request handed to
\* agent.invoke, or the exception raised before it.
invoke_agent(e, g, messages, callbacks, thread_id) ==
    IF ~callbacks.is_list
    THEN [raised |-> "TypeError"]
    ELSE LET agent == create_agent(e, g)
         IN  IF agent.raised # None
             THEN [raised |-> agent.raised]
             ELSE [raised |-> None,
                   agent |-> agent,
                   input |-> [messages |-> messages],
                   stream_mode |-> "values",
                   config |-> [thread_id |-> thread_id, callbacks |-> callbacks]]
\* line 168: prompt = question or prompt
ChoosePrompt(q, chat) == IF Truthy(q) THEN q ELSE chat

\* line 171 and line 180: st.session_state.messages.append(m)
AppendMessage(s, m) == Put(s, "messages", Append(s["messages"], m))

\* the UI loop sending only the new message
CallAgent_LastOnly(e, g, s) ==
    LET m == s["messages"]
    IN  invoke_agent(e, g, SubSeq(m, Len(m), Len(m)),
                     [is_list |-> TRUE, handlers |-> 1], s["thread_id"])

\* line 178: the arguments the UI loop gives invoke_agent
CallAgent(e, g, s) ==
    invoke_agent(e, g, s["messages"], [is_list |-> TRUE, handlers |-> 1],
                 s["thread_id"])

\* What agent.invoke does with a request is the library's and the model
\* service's: it returns a state whose last message carries some content, or
\* it raises.
Outcomes == {"r1", "raise"}

\* What loading the tools may do in a run
Toolbox == {"ok", "raise"}

-----------------------------------------------------------------------------
(* The session: the browser's events and the script thread, line by line *)

\* No rerun request is waiting.
NoRequest == [kind |-> "none", click |-> FALSE, chat |-> None]

Pending == pending.kind # "none"

\* The record of a run; this is also its value before the first run.
NoRun ==
    [kind |-> "none", newMessage |-> FALSE,
     click |-> FALSE, chat |-> None, q |-> None, api_key |-> "",
     before |-> EmptyState, usedBefore |-> {}, envBefore |-> Unset,
     setup |-> [raised |-> FALSE, tools |-> None, memory |-> None],
     tested |-> FALSE, found |-> None,
     prompted |-> FALSE, stopped |-> FALSE, reached |-> FALSE,
     reset |-> FALSE, prompt |-> None, calls |-> <<>>, raised |-> FALSE,
     reply |-> None, answered |-> FALSE, rendered |-> {}, end |-> "none"]

\* The positions at which the script thread looks for a rerun request: every
\* st.* call and every access to st.session_state. A position stands for the
\* checks between it and the next state change.
YieldPoints ==
    {"131", "51", "56", "138", "144", "148", "149", "153", "154", "157",
     "166", "167", "171", "178", "124", "180", "181"}

\* The browser sends an event with the widget values: a rerun request. A
\* request that finds another one waiting is merged with it: the triggers
\* (the button, the chat input) of both are kept.
Request(kind, click, chat) ==
    /\ interrupts' = IF pc # "idle" \/ Pending THEN interrupts + 1
                      ELSE interrupts
    /\ interrupts' <= MaxInterrupts
    /\ pending' = [kind |-> kind,
                   click |-> pending.click \/ click,
                   chat |-> IF Truthy(chat) THEN chat ELSE pending.chat]
    /\ UNCHANGED <<env, ss, lastRun, pc, page, enteredKey, usedThreadIds,
                   dotenv, runs, other, sc, cb>>

\* The browser opens the page: every widget at its default.
PageLoad ==
    /\ runs = 0
    /\ ~Pending
    /\ UNCHANGED <<question, api_key_input, unsent>>
    /\ Request("load", FALSE, None)

\* The user reruns the script from the menu: every widget keeps its value.
Rerun ==
    /\ runs > 0
    /\ UNCHANGED <<question, api_key_input, unsent>>
    /\ Request("rerun", FALSE, None)

\* The user changes the text of the sidebar input: types a key, or clears it.
EnterKey ==
    /\ "sidebar" \in page
    /\ \E k \in Keys \cup {""} :
        /\ k # api_key_input
        /\ api_key_input' = k
    /\ UNCHANGED <<question, unsent>>
    /\ Request("key", FALSE, None)

\* The user picks a question in the dropdown, or clears the dropdown.
SelectQuestion ==
    /\ "dropdown" \in page
    /\ \E q \in Selectable \cup {None} :
        /\ q # question
        /\ question' = q
        /\ unsent' = Truthy(q)
    /\ UNCHANGED api_key_input
    /\ Request("select", FALSE, None)

\* The user submits text in the chat input.
SubmitChat ==
    /\ "chat_input" \in page
    /\ UNCHANGED <<question, api_key_input, unsent>>
    /\ \E p \in Typed : Request("chat", FALSE, p)

\* The user clicks "Start New Conversation".
ClickReset ==
    /\ "button" \in page
    /\ UNCHANGED <<question, api_key_input, unsent>>
    /\ Request("reset", TRUE, None)

\* A run ends: by running to its end, by st.stop(), by an exception, or by a
\* rerun request (how = "cut"). Unless a rerun request ended it, the page
\* keeps the widgets the run rendered and the others lose their values.
Finish(r, how) ==
    /\ pc' = "idle"
    /\ lastRun' = [r EXCEPT !.end = how]
    /\ page' = IF how = "cut" THEN page \cup r.rendered ELSE r.rendered
    /\ question' = IF how = "cut" \/ "dropdown" \in r.rendered
                   THEN question ELSE None
    /\ unsent' = IF how = "cut" \/ "dropdown" \in r.rendered
                 THEN unsent ELSE FALSE
    /\ api_key_input' = IF how = "cut" \/ "sidebar" \in r.rendered
                        THEN api_key_input ELSE ""

\* The script thread goes on to position l with the run's record r.
Goto(l, r) ==
    /\ pc' = l
    /\ lastRun' = r
    /\ UNCHANGED <<page, question, unsent, api_key_input>>

\* The script thread is at yield point l and no rerun request is waiting.
At(l) == pc = l /\ ~Pending

\* A rerun request is waiting when the script thread comes to a yield point:
\* the call raises and ends the run. Inside agent.invoke (line 124) the
\* callbacks are such calls.
RaiseRerun ==
    /\ pc \in YieldPoints
    /\ Pending
    /\ Finish(lastRun, "cut")
    /\ UNCHANGED <<env, ss, pending, enteredKey, usedThreadIds, dotenv, runs,
                   other, interrupts, sc, cb>>

\* The script starts for the waiting request, with the widget values the
\* browser holds; line 21: load_dotenv().
StartRun ==
    /\ pc = "idle"
    /\ Pending
    /\ runs < MaxRuns
    /\ runs' = runs + 1
    /\ env' = load_dotenv(env, dotenv)
    /\ pending' = NoRequest
    /\ Goto("25", [NoRun EXCEPT
                    !.kind = pending.kind,
                    !.newMessage = Truthy(pending.chat)
                                       \/ (Truthy(question) /\ unsent),
                    !.click = pending.click,
                    !.chat = pending.chat,
                    !.q = question,
                    !.api_key = api_key_input,
                    !.before = ss,
                    !.usedBefore = usedThreadIds,
                    !.envBefore = load_dotenv(env, dotenv),
                    !.end = "running"])
    /\ UNCHANGED <<ss, enteredKey, usedThreadIds, dotenv, other, interrupts,
                   sc, cb>>

\* lines 24-26: the tools are loaded from the Toolbox server, which may fail.
Line25 ==
    /\ pc = "25"
    /\ \E t \in Toolbox :
        LET g == ModuleSetup(runs, t)
        IN  IF g.raised
            THEN Finish([lastRun EXCEPT !.raised = TRUE], "setup")
            ELSE Goto("131", [lastRun EXCEPT !.setup = g])
    /\ UNCHANGED <<env, ss, pending, enteredKey, usedThreadIds, dotenv, runs,
                   other, interrupts, sc, cb>>

\* lines 131-133: the page title
Line131 ==
    /\ At("131")
    /\ Goto("50", lastRun)
    /\ UNCHANGED <<env, ss, pending, enteredKey, usedThreadIds, dotenv, runs,
                   other, interrupts, sc, cb>>

\* line 50: if not os.getenv("GEMINI_API_KEY")
Line50 ==
    /\ pc = "50"
    /\ Goto(IF Truthy(getenv(env)) THEN "138" ELSE "51",
            [lastRun EXCEPT !.tested = TRUE, !.found = getenv(env)])
    /\ UNCHANGED <<env, ss, pending, enteredKey, usedThreadIds, dotenv, runs,
                   other, interrupts, sc, cb>>

\* lines 51-55: the sidebar input is rendered and read
Line51 ==
    /\ At("51")
    /\ pc' = IF ~Truthy(lastRun.api_key) THEN "56" ELSE "58"
    /\ lastRun' = [lastRun EXCEPT !.prompted = TRUE,
                                  !.rendered = @ \cup {"sidebar"}]
    /\ page' = page \cup {"sidebar"}
    /\ UNCHANGED <<question, unsent, api_key_input>>
    /\ UNCHANGED <<env, ss, pending, enteredKey, usedThreadIds, dotenv, runs,
                   other, interrupts, sc, cb>>

\* lines 56-57 with the st.stop() left out
Line56_NoStop ==
    /\ At("56")
    /\ Goto("58", lastRun)
    /\ UNCHANGED <<env, ss, pending, enteredKey, usedThreadIds, dotenv, runs,
                   other, interrupts, sc, cb>>

\* lines 56-57: an empty input stops the run
Line56 ==
    /\ At("56")
    /\ Finish([lastRun EXCEPT !.stopped = TRUE], "stop")
    /\ UNCHANGED <<env, ss, pending, enteredKey, usedThreadIds, dotenv, runs,
                   other, interrupts, sc, cb>>

\* line 58: os.environ["GEMINI_API_KEY"] = api_key
Line58 ==
    /\ pc = "58"
    /\ env' = lastRun.api_key
    /\ enteredKey' = IF enteredKey = None THEN lastRun.api_key ELSE enteredKey
    /\ Goto("138", lastRun)
    /\ UNCHANGED <<ss, pending, usedThreadIds, dotenv, runs, other,
                   interrupts, sc, cb>>

\* lines 138-143: the default of "messages"
Line138 ==
    /\ At("138")
    /\ ss' = IF ~Has(ss, "messages")
             THEN Put(ss, "messages", InitialMessages) ELSE ss
    /\ Goto("144", [lastRun EXCEPT !.reached = TRUE])
    /\ UNCHANGED <<env, pending, enteredKey, usedThreadIds, dotenv, runs,
                   other, interrupts, sc, cb>>

\* lines 144-145: the default of "thread_id"
Line144 ==
    /\ At("144")
    /\ ss' = IF ~Has(ss, "thread_id")
             THEN Put(ss, "thread_id", ThreadName(1)) ELSE ss
    /\ usedThreadIds' = usedThreadIds \cup {ss'["thread_id"]}
    /\ Goto("148", lastRun)
    /\ UNCHANGED <<env, pending, enteredKey, dotenv, runs, other, interrupts,
                   sc, cb>>

\* line 148: if st.button("Start New Conversation")
Line148 ==
    /\ At("148")
    /\ pc' = IF lastRun.click THEN "149" ELSE "157"
    /\ lastRun' = [lastRun EXCEPT !.rendered = @ \cup {"button"}]
    /\ page' = page \cup {"button"}
    /\ UNCHANGED <<question, unsent, api_key_input>>
    /\ UNCHANGED <<env, ss, pending, enteredKey, usedThreadIds, dotenv, runs,
                   other, interrupts, sc, cb>>

\* lines 149-152: messages is set to the first two messages
Line149 ==
    /\ At("149")
    /\ ss' = Put(ss, "messages", InitialMessages)
    /\ Goto("153", lastRun)
    /\ UNCHANGED <<env, pending, enteredKey, usedThreadIds, dotenv, runs,
                   other, interrupts, sc, cb>>

\* line 153: thread_id = f"thread-{len(threads) + 1}"
Line153 ==
    /\ At("153")
    /\ ss' = Put(ss, "thread_id",
                 ThreadName(Len(Get(ss, "threads", <<>>)) + 1))
    /\ usedThreadIds' = usedThreadIds \cup {ss'["thread_id"]}
    /\ Goto("154", lastRun)
    /\ UNCHANGED <<env, pending, enteredKey, dotenv, runs, other, interrupts,
                   sc, cb>>

\* line 154: threads = threads + [thread_id]
Line154 ==
    /\ At("154")
    /\ ss' = Put(ss, "threads",
                 Append(Get(ss, "threads", <<>>), ss["thread_id"]))
    /\ Goto("157", [lastRun EXCEPT !.reset = TRUE])
    /\ UNCHANGED <<env, pending, enteredKey, usedThreadIds, dotenv, runs,
                   other, interrupts, sc, cb>>

\* lines 157-163: the messages are displayed
Line157 ==
    /\ At("157")
    /\ Goto("166", lastRun)
    /\ UNCHANGED <<env, ss, pending, enteredKey, usedThreadIds, dotenv, runs,
                   other, interrupts, sc, cb>>

\* line 166: the dropdown is rendered and read
Line166 ==
    /\ At("166")
    /\ pc' = "167"
    /\ lastRun' = [lastRun EXCEPT !.rendered = @ \cup {"dropdown"}]
    /\ page' = page \cup {"dropdown"}
    /\ UNCHANGED <<question, unsent, api_key_input>>
    /\ UNCHANGED <<env, ss, pending, enteredKey, usedThreadIds, dotenv, runs,
                   other, interrupts, sc, cb>>

\* lines 167-170: the chat input is rendered and read, and the prompt chosen
Line167 ==
    /\ At("167")
    /\ LET prompt == ChoosePrompt(lastRun.q, lastRun.chat)
           r == [lastRun EXCEPT !.prompt = prompt,
                                !.rendered = @ \cup {"chat_input"}]
       IN  IF Truthy(prompt)
           THEN /\ pc' = "171"
                /\ lastRun' = r
                /\ page' = page \cup {"chat_input"}
                /\ UNCHANGED <<question, unsent, api_key_input>>
           ELSE Finish(r, "done")
    /\ UNCHANGED <<env, ss, pending, enteredKey, usedThreadIds, dotenv, runs,
                   other, interrupts, sc, cb>>

\* line 171: the HumanMessage is appended
Line171 ==
    /\ At("171")
    /\ ss' = AppendMessage(ss, HumanMessage(lastRun.prompt))
    /\ Goto("178", lastRun)
    /\ UNCHANGED <<env, pending, enteredKey, usedThreadIds, dotenv, runs,
                   other, interrupts, sc, cb>>

\* lines 172-178 and 120-122: the prompt is displayed, invoke_agent is called
\* and builds the agent.
Line178 ==
    /\ At("178")
    /\ LET call == CallAgent(env, lastRun.setup, ss)
           r == [lastRun EXCEPT !.calls = Append(@, call)]
       IN  IF call.raised # None
           THEN Finish([r EXCEPT !.raised = TRUE], "agent")
           ELSE /\ pc' = "124"
                /\ lastRun' = r
                /\ unsent' = IF lastRun.prompt = question THEN FALSE
                              ELSE unsent
                /\ UNCHANGED <<page, question, api_key_input>>
    /\ UNCHANGED <<env, ss, pending, enteredKey, usedThreadIds, dotenv, runs,
                   other, interrupts, sc, cb>>

\* lines 124-128 and 179: agent.invoke returns or raises
Line124 ==
    /\ pc = "124"
    /\ \E o \in Outcomes :
        IF o = "raise"
        THEN Finish([lastRun EXCEPT !.raised = TRUE], "agent")
        ELSE Goto("180", [lastRun EXCEPT !.reply = o])
    /\ UNCHANGED <<env, ss, pending, enteredKey, usedThreadIds, dotenv, runs,
                   other, interrupts, sc, cb>>

\* line 180: the AIMessage is appended
Line180 ==
    /\ At("180")
    /\ ss' = AppendMessage(ss, AIMessage(lastRun.reply))
    /\ Goto("181", [lastRun EXCEPT !.answered = TRUE])
    /\ UNCHANGED <<env, pending, enteredKey, usedThreadIds, dotenv, runs,
                   other, interrupts, sc, cb>>

\* line 181: the reply is displayed, and the script ends
Line181 ==
    /\ At("181")
    /\ Finish(lastRun, "done")
    /\ UNCHANGED <<env, ss, pending, enteredKey, usedThreadIds, dotenv, runs,
                   other, interrupts, sc, cb>>

\* os.environ belongs to the process. The script run of another session
\* executes line 21 ...
OtherLoad ==
    /\ other = "idle"
    /\ load_dotenv(env, dotenv) # env
    /\ env' = load_dotenv(env, dotenv)
    /\ UNCHANGED <<ss, question, api_key_input, unsent, page, pending, pc,
                   lastRun, enteredKey, usedThreadIds, dotenv, runs, other,
                   interrupts, sc, cb>>

\* ... evaluates line 50 (the key is missing) ...
OtherTest ==
    /\ other = "idle"
    /\ load_dotenv(env, dotenv) = env
    /\ ~Truthy(getenv(env))
    /\ other' = "tested"
    /\ UNCHANGED <<env, ss, question, api_key_input, unsent, page, pending,
                   pc, lastRun, enteredKey, usedThreadIds, dotenv, runs,
                   interrupts, sc, cb>>

\* ... and later, its user having typed a key, executes line 58.
OtherWrite ==
    /\ other = "tested"
    /\ \E k \in Keys : env' = k
    /\ other' = "idle"
    /\ UNCHANGED <<ss, question, api_key_input, unsent, page, pending, pc,
                   lastRun, enteredKey, usedThreadIds, dotenv, runs,
                   interrupts, sc, cb>>

\* The session before the browser opens the page
SessionIdle ==
    /\ ss = EmptyState
    /\ question = None
    /\ api_key_input = ""
    /\ unsent = FALSE
    /\ page = {}
    /\ pending = NoRequest
    /\ pc = "idle"
    /\ lastRun = NoRun
    /\ enteredKey = None
    /\ usedThreadIds = {}
    /\ runs = 0
    /\ interrupts = 0
    /\ other = "idle"

\* The process before its first run: the environment and the .env file
InitApp ==
    /\ env \in {Unset, "", "k1"}
    /\ dotenv \in {Unset, "k2"}
    /\ SessionIdle

IdleScripts == [script |-> "none"]
IdleCallback == [phase |-> "none"]

Init ==
    /\ InitApp
    /\ sc = IdleScripts
    /\ cb = IdleCallback

Next ==
    \/ PageLoad
    \/ Rerun
    \/ EnterKey
    \/ SelectQuestion
    \/ SubmitChat
    \/ ClickReset
    \/ StartRun
    \/ RaiseRerun
    \/ Line25
    \/ Line131
    \/ Line50
    \/ Line51
    \/ Line56
    \/ Line58
    \/ Line138
    \/ Line144
    \/ Line148
    \/ Line149
    \/ Line153
    \/ Line154
    \/ Line157
    \/ Line166
    \/ Line167
    \/ Line171
    \/ Line178
    \/ Line124
    \/ Line180
    \/ Line181
    \/ OtherLoad
    \/ OtherTest
    \/ OtherWrite

Spec == Init /\ [][Next]_vars

-----------------------------------------------------------------------------
(* Claims about app.py, checked under Spec *)

\* lastRun is the record of a run: the one in progress, or the last one.
Ran == lastRun.kind # "none"

\* C1: a run in which ensure_api_key finds GEMINI_API_KEY unset or empty at
\* its test (line 50) while the sidebar input is empty goes no further than
\* the sidebar prompt (lines 51-57): it is stopped there (or a rerun request
\* ends it there), session_state is left as it was at the start of the run (messages
\* and thread_id neither initialised nor changed) and invoke_agent is not
\* called; and no call of invoke_agent is ever made without a non-empty key.
C1_NoKeyNoAgent ==
    Ran =>
        /\ (lastRun.tested /\ ~Truthy(lastRun.found)
                /\ ~Truthy(lastRun.api_key)) =>
                /\ lastRun.end \in {"running", "stop", "cut"}
                /\ lastRun.end = "running" => pc \in {"51", "56"}
                /\ ~lastRun.reached
                /\ ss = lastRun.before
                /\ lastRun.calls = <<>>
        /\ \A i \in 1..Len(lastRun.calls) :
                /\ Truthy(env)
                /\ lastRun.calls[i].raised = None
                        => Truthy(lastRun.calls[i].agent.llm.api_key)

C1_Witness ==
    /\ Ran
    /\ lastRun.tested
    /\ lastRun.found \in {None, ""}
    /\ lastRun.api_key = ""
    /\ lastRun.stopped
    /\ lastRun.end = "stop"
    /\ ~Has(ss, "messages")

\* C1 as first stated: a run that starts with GEMINI_API_KEY unset or empty
\* in the environment (after load_dotenv) and with an empty sidebar input
\* never gets beyond ensure_api_key: session_state is left as it was and
\* invoke_agent is not called.
C1_UnsetAtStart ==
    (Ran /\ ~Truthy(getenv(lastRun.envBefore)) /\ ~Truthy(lastRun.api_key)) =>
        /\ lastRun.end \in {"running", "stop", "setup", "cut"}
        /\ ~lastRun.reached
        /\ ss = lastRun.before
        /\ lastRun.calls = <<>>

\* C2: once ensure_api_key has read a non-empty key from the sidebar and
\* stored it, GEMINI_API_KEY holds that key, and no later run prompts or
\* stops: the only run that prompts is the one in which that key was read.
C2_KeyStoredForProcess ==
    enteredKey # None =>
        /\ env = enteredKey
        /\ ~lastRun.stopped
        /\ lastRun.prompted =>
                /\ lastRun.api_key = enteredKey
                /\ ~Truthy(lastRun.found)

C2_Witness ==
    /\ enteredKey # None
    /\ lastRun.kind = "key"
    /\ lastRun.api_key # enteredKey
    /\ lastRun.tested
    /\ lastRun.reached
    /\ ~lastRun.prompted
    /\ env = enteredKey

\* C3: in every run started by a dropdown selection, a chat submission or a
\* click on the button (and that runs to line 178 or to its end), invoke_agent is
\* called once if the user submitted a new message in that event, and not at
\* all otherwise.
C3_OncePerNewMessage ==
    (Ran /\ lastRun.kind \in {"select", "chat", "reset"}
         /\ lastRun.end \in {"done", "agent"}) =>
        Len(lastRun.calls) = (IF lastRun.newMessage THEN 1 ELSE 0)

\* C4: a run with a non-empty prompt in which invoke_agent returns leaves
\* messages as it was before the run plus HumanMessage(prompt) and
\* AIMessage(reply), and makes one agent invocation.
C4_TurnAppendsTwo ==
    (Ran /\ Truthy(lastRun.prompt) /\ lastRun.end = "done") =>
        /\ Has(lastRun.before, "messages")
        /\ ss["messages"] = lastRun.before["messages"]
                \o << HumanMessage(lastRun.prompt), AIMessage(lastRun.reply) >>
        /\ Len(lastRun.calls) = 1

\* C6: every call of invoke_agent by the UI loop passes the whole current
\* messages list, which begins with the SystemMessage and ends with the
\* HumanMessage just appended, and the session's current thread_id, to an
\* agent built with the tools and, as checkpointer, the memory that the
\* module level of this run created. The list is the one the call was given
\* until line 180 appends the reply to it.
C6_StateForwarded ==
    \A i \in 1..(IF Ran THEN Len(lastRun.calls) ELSE 0) :
        LET call == lastRun.calls[i]
            sent == call.input.messages
            m == ss["messages"]
        IN  /\ call.raised = None
            /\ IF lastRun.answered
               THEN m = Append(sent, AIMessage(lastRun.reply))
               ELSE m = sent
            /\ sent[1] = SystemMessage(SYSTEM_PROMPT)
            /\ sent[Len(sent)] = HumanMessage(lastRun.prompt)
            /\ call.config.thread_id = ss["thread_id"]
            /\ call.agent.tools = <<"load_toolset()", runs>>
            /\ call.agent.checkpointer = <<"MemorySaver()", runs>>

C6_Witness ==
    /\ Ran
    /\ pc = "124"
    /\ Len(lastRun.calls) = 1
    /\ Len(lastRun.calls[1].input.messages) = 5
    /\ lastRun.calls[1].agent.checkpointer = <<"MemorySaver()", 3>>

\* C7: a click on "Start New Conversation" gives the session a thread_id it
\* has not held before.
C7_FreshThread ==
    (Ran /\ lastRun.click /\ lastRun.reset) => ss["thread_id"] \notin lastRun.usedBefore

\* C8: between runs, once initialised, messages is the SystemMessage, the
\* greeting, then (HumanMessage, AIMessage) pairs; and a click resets it to
\* the first two before the prompt of that run is processed.
Alternates(m) ==
    /\ Len(m) >= 2
    /\ m[1] = SystemMessage(SYSTEM_PROMPT)
    /\ m[2] = AIMessage(GREETING)
    /\ Len(m) % 2 = 0
    /\ \A i \in 3..Len(m) :
        m[i].type = (IF i % 2 = 1 THEN "human" ELSE "ai")

C8_Alternation ==
    (pc = "idle" /\ Has(ss, "messages")) =>
        /\ Alternates(ss["messages"])
        /\ (lastRun.click /\ lastRun.reset /\ ~Truthy(lastRun.prompt)) =>
                ss["messages"] = InitialMessages

C3_Witness ==
    /\ Ran
    /\ lastRun.end = "done"
    /\ lastRun.kind = "chat"
    /\ lastRun.newMessage
    /\ Len(lastRun.calls) = 1

C4_Witness ==
    /\ Ran
    /\ Truthy(lastRun.prompt)
    /\ lastRun.end = "done"
    /\ Len(ss["messages"]) = Len(lastRun.before["messages"]) + 2

C7_Witness ==
    /\ Ran
    /\ lastRun.click
    /\ lastRun.reset
    /\ ss["thread_id"] = ThreadName(2)
    /\ ThreadName(2) \notin lastRun.usedBefore

C8_Witness ==
    /\ pc = "idle"
    /\ lastRun.end = "done"
    /\ lastRun.click
    /\ lastRun.reset
    /\ ~Truthy(lastRun.prompt)
    /\ Len(lastRun.before["messages"]) = 4
    /\ Alternates(lastRun.before["messages"])
    /\ ss["messages"] = InitialMessages

-----------------------------------------------------------------------------
(* The console check scripts *)

\* check_toolbox_query_agent.py: QUERIES
TOOLBOX_QUERIES == <<
    "What industries deal with neurological implants?",
    "List 5 companies in those industries with their description and filter afterwards by California.",
    "Who is working at these companies?",
    "What were the news in January 2023 with positive sentiment? List top 5 articles.",
    "Summarize these articles.",
    "Which 3 companies were mentioned by these articles?",
    "Who is working there as board members?" >>

KeyNotFound == [type |-> "ValueError", msg |-> "GEMINI_API_KEY not found"]
KeyError == [type |-> "KeyError", msg |-> "'GEMINI_API_KEY'"]
NoException == [type |-> "none", msg |-> ""]

\* What a library call may raise: some Exception
Failures == {[type |-> "Exception", msg |-> "connection refused"]}

\* os.environ.get(name): None when the variable is not set
environ_get(e) == IF e = Unset THEN None ELSE e

\* os.environ[name]: KeyError when the variable is not set
environ_getitem(e) ==
    IF e = Unset THEN [raised |-> KeyError, value |-> None]
    ELSE [raised |-> NoException, value |-> e]

\* A script about to execute its first statement after load_dotenv, with
\* GEMINI_API_KEY as e.
ScriptStart(name, e) ==
    [script |-> name, env |-> e, pc |-> "check", i |-> 1,
     built |-> {}, sent |-> <<>>, out |-> <<>>,
     exc |-> NoException, caught |-> NoException, caughtAt |-> "nowhere"]

\* An uncaught exception ends the script.
Propagate(s, e) == [s EXCEPT !.exc = e, !.pc = "exit"]

\* main's handler printing the error and carrying on with the next query
TbCatch_Continue(s, e) ==
    [s EXCEPT !.out = Append(@, <<"An error occurred: ", e.msg>>),
              !.caught = e,
              !.caughtAt = s.pc,
              !.i = IF s.pc = "query" THEN s.i + 1 ELSE s.i,
              !.pc = IF s.pc = "query" /\ s.i < Len(TOOLBOX_QUERIES)
                     THEN "query" ELSE "done"]

\* check_toolbox_query_agent.py lines 65-66: except Exception as e: print(...)
TbCatch(s, e) ==
    [s EXCEPT !.out = Append(@, <<"An error occurred: ", e.msg>>),
              !.caught = e,
              !.caughtAt = s.pc,
              !.pc = "done"]

\* check_toolbox_query_agent.py lines 13-15
TbCheckKey ==
    /\ sc.script = "toolbox" /\ sc.pc = "check"
    /\ sc' = IF ~Truthy(environ_get(sc.env))
             THEN Propagate(sc, KeyNotFound)
             ELSE [sc EXCEPT !.pc = "model"]
    /\ UNCHANGED <<appVars, cb>>

\* One constructing statement of main's try block: it completes, or raises.
TbStep(at, object, then) ==
    /\ sc.script = "toolbox" /\ sc.pc = at
    /\ \/ sc' = [sc EXCEPT !.built = @ \cup {object}, !.pc = then]
       \/ \E e \in Failures : sc' = TbCatch(sc, e)
    /\ UNCHANGED <<appVars, cb>>

\* lines 46-48
TbBuildModel == TbStep("model", "model", "tools")

\* lines 51-52
TbLoadTools == TbStep("tools", "tools", "agent")

\* lines 55-57
TbCreateAgent == TbStep("agent", "agent", "query")

\* check_toolbox_query_agent.py: SYSTEM_PROMPT
TOOLBOX_SYSTEM_PROMPT == "You are an investment research assistant. ..."

\* run_agent_query(agent, query, config): the input sent to agent.ainvoke;
\* the content SYSTEM_PROMPT + query is kept as its two parts
run_agent_query(query) ==
    [messages |-> << <<"user", <<TOOLBOX_SYSTEM_PROMPT, query>> >> >>]

\* lines 60-64: one iteration of the loop over QUERIES
TbQuery ==
    /\ sc.script = "toolbox" /\ sc.pc = "query"
    /\ LET query == TOOLBOX_QUERIES[sc.i]
           asked == [sc EXCEPT !.out = Append(@, <<"query", query>>),
                               !.sent = Append(@, run_agent_query(query))]
       IN  \/ \E r \in Replies :
                sc' = [asked EXCEPT
                         !.out = @ \o << <<"> ", r>>, <<"----">> >>,
                         !.i = @ + 1,
                         !.pc = IF sc.i < Len(TOOLBOX_QUERIES) THEN "query" ELSE "done"]
           \/ \E e \in Failures : sc' = TbCatch(asked, e)
    /\ UNCHANGED <<appVars, cb>>

\* check_google_genai.py lines 7-8
GgCheckKey ==
    /\ sc.script = "genai" /\ sc.pc = "check"
    /\ LET v == environ_getitem(sc.env)
       IN  sc' = IF v.raised # NoException THEN Propagate(sc, v.raised)
                 ELSE IF v.value = None THEN Propagate(sc, KeyNotFound)
                 ELSE [sc EXCEPT !.pc = "client"]
    /\ UNCHANGED <<appVars, cb>>

\* check_google_genai.py line 11
GgClient ==
    /\ sc.script = "genai" /\ sc.pc = "client"
    /\ \/ sc' = [sc EXCEPT !.built = @ \cup {"client"}, !.pc = "generate"]
       \/ \E e \in Failures : sc' = Propagate(sc, e)
    /\ UNCHANGED <<appVars, cb>>

\* check_google_genai.py lines 13-16
GgGenerate ==
    /\ sc.script = "genai" /\ sc.pc = "generate"
    /\ LET asked == [sc EXCEPT !.sent = Append(@, "Explain how AI works in a few words")]
       IN  \/ \E r \in Replies :
                sc' = [asked EXCEPT !.out = Append(@, r), !.pc = "done"]
           \/ \E e \in Failures : sc' = Propagate(asked, e)
    /\ UNCHANGED <<appVars, cb>>

AppIdle ==
    /\ env = Unset
    /\ dotenv = Unset
    /\ SessionIdle

InitScripts ==
    /\ AppIdle
    /\ cb = IdleCallback
    /\ \E name \in {"toolbox", "genai"}, e \in {Unset, ""} \cup Keys :
        sc = ScriptStart(name, e)

NextScripts ==
    \/ TbCheckKey
    \/ TbBuildModel
    \/ TbLoadTools
    \/ TbCreateAgent
    \/ TbQuery
    \/ GgCheckKey
    \/ GgClient
    \/ GgGenerate

SpecScripts == InitScripts /\ [][NextScripts]_vars

\* C5: main sends the queries one at a time in QUERIES order, and an
\* Exception raised by model construction, tool loading, agent construction
\* or a query is caught: one error line is printed last, the queries sent are
\* those up to the failing one, and main ends without propagating.
ErrorLines(out) == {j \in 1..Len(out) : out[j][1] = "An error occurred: "}

C5_CatchAndPrint ==
    sc.script = "toolbox" =>
        /\ Len(sc.sent) <= Len(TOOLBOX_QUERIES)
        /\ \A j \in 1..Len(sc.sent) : sc.sent[j] = run_agent_query(TOOLBOX_QUERIES[j])
        /\ sc.caught # NoException =>
            /\ sc.pc = "done"
            /\ sc.exc = NoException
            /\ ErrorLines(sc.out) = {Len(sc.out)}
            /\ sc.out[Len(sc.out)] = <<"An error occurred: ", sc.caught.msg>>
            /\ Len(sc.sent) = (IF sc.caughtAt = "query" THEN sc.i ELSE 0)

C5_Witness ==
    /\ sc.script = "toolbox"
    /\ sc.caught # NoException
    /\ sc.caughtAt = "query"
    /\ sc.i = 3
    /\ Len(sc.sent) = 3
    /\ sc.pc = "done"

\* C9: each check script started without GEMINI_API_KEY ends its key check by
\* raising ValueError('GEMINI_API_KEY not found'), with nothing constructed
\* and nothing sent.
C9_ValueErrorFirst ==
    (sc.script \in {"toolbox", "genai"} /\ sc.env = Unset /\ sc.pc # "check") =>
        /\ sc.exc = KeyNotFound
        /\ sc.built = {}
        /\ sc.sent = <<>>

C9_Witness ==
    /\ sc.script = "toolbox"
    /\ sc.env = Unset
    /\ sc.exc = KeyNotFound
    /\ sc.pc = "exit"

-----------------------------------------------------------------------------
(* get_streamlit_callback and the handler it returns *)

\* Method names, as their characters
on_text == <<"o", "n", "_", "t", "e", "x", "t">>
on_llm_end == <<"o", "n", "_", "l", "l", "m", "_", "e", "n", "d">>
on_tool_end == <<"o", "n", "_", "t", "o", "o", "l", "_", "e", "n", "d">>
complete_thought == <<"_", "c", "o", "m", "p", "l", "e", "t", "e">>
dunder_init == <<"_", "_", "i", "n", "i", "t", "_", "_">>

\* inspect.getmembers(callback, predicate=inspect.ismethod): some of the
\* methods of a StreamlitCallbackHandler
Methods == {on_text, on_llm_end, on_tool_end, complete_thought, dunder_init}

\* str.startswith
startswith(name, prefix) ==
    /\ Len(name) >= Len(prefix)
    /\ SubSeq(name, 1, Len(prefix)) = prefix

\* The script thread of the current run and the agent's worker threads
Threads == {"script", "worker-1", "worker-2"}
NoCtx == 0                  \* no script-run context attached
Arguments == {"a", "b"}

\* What the handler's own method computes from what it receives
Original(name, args) == <<name, args>>

\* streamlit: get_script_run_ctx() on thread t
get_script_run_ctx(threads, t) == threads[t]

\* streamlit: add_script_run_ctx(ctx=ctx) on thread t
add_script_run_ctx(threads, t, ctx) ==
    LET c == IF ctx = NoCtx THEN get_script_run_ctx(threads, t) ELSE ctx
    IN  IF c # NoCtx THEN [threads EXCEPT ![t] = c] ELSE threads

\* add_context reading the context when the wrapper is called, not when it
\* is made
add_context_Late(threads, creator, fn) ==
    [fn |-> fn, wrapped |-> TRUE, ctx |-> NoCtx]

\* lines 83-89: add_context(fn), called on thread creator
add_context(threads, creator, fn) ==
    [fn |-> fn, wrapped |-> TRUE, ctx |-> get_script_run_ctx(threads, creator)]

\* lines 92-101: the handler, as its methods
get_streamlit_callback(threads, creator) ==
    [name \in Methods |->
        IF startswith(name, <<"o", "n", "_">>)
        THEN add_context(threads, creator, name)
        ELSE [fn |-> name, wrapped |-> FALSE, ctx |-> NoCtx]]

\* lines 86-88: a call of a handler method on thread t
CallMethod(threads, handler, t, name, args) ==
    LET m == handler[name]
        attached == IF m.wrapped THEN add_script_run_ctx(threads, t, m.ctx)
                    ELSE threads
    IN  [threads |-> attached,
         body |-> [method |-> m.fn, received |-> args,
                   ctx |-> get_script_run_ctx(attached, t)],
         result |-> Original(m.fn, args)]

NoCall == [thread |-> "none"]

CallbackStart ==
    [phase |-> "start", run |-> 0,
     threads |-> [t \in Threads |-> NoCtx],
     handler |-> [name \in Methods |-> [fn |-> name, wrapped |-> FALSE, ctx |-> NoCtx]],
     lastCall |-> NoCall]

\* A script run reaches line 177 on its script thread, whose context is the
\* run's; the worker threads are the agent's and outlive the run.
CbGet ==
    /\ cb.phase # "none"
    /\ cb.run < MaxScriptRuns
    /\ LET run == cb.run + 1
           threads == [cb.threads EXCEPT !["script"] = run]
       IN  cb' = [cb EXCEPT !.phase = "built", !.run = run, !.threads = threads,
                            !.handler = get_streamlit_callback(threads, "script"),
                            !.lastCall = NoCall]
    /\ UNCHANGED <<appVars, sc>>

\* The agent calls a method of the handler on one of its threads.
CbCall ==
    /\ cb.phase \in {"built", "called"}
    /\ \E t \in Threads, name \in Methods, args \in Arguments :
        LET r == CallMethod(cb.threads, cb.handler, t, name, args)
        IN  cb' = [cb EXCEPT !.phase = "called", !.threads = r.threads,
                             !.lastCall = [thread |-> t, name |-> name, args |-> args,
                                           ctxBefore |-> cb.threads[t],
                                           body |-> r.body, result |-> r.result]]
    /\ UNCHANGED <<appVars, sc>>

InitCallback ==
    /\ AppIdle
    /\ sc = IdleScripts
    /\ cb = CallbackStart

NextCallback ==
    \/ CbGet
    \/ CbCall

SpecCallback == InitCallback /\ [][NextCallback]_vars

\* C10: a call of a handler method whose name starts with 'on_' runs the
\* original method, on whichever thread, with the context of the script run
\* that built the handler attached to that thread, with the caller's
\* arguments, and returns its result; any other method runs unwrapped, with
\* the thread's context as it was.
C10_ContextAttached ==
    cb.phase = "called" =>
        LET c == cb.lastCall
            on == c.name[1] = "o" /\ c.name[2] = "n" /\ c.name[3] = "_"
        IN  /\ cb.handler[c.name].wrapped = on
            /\ c.body.method = c.name
            /\ c.body.received = c.args
            /\ c.result = Original(c.name, c.args)
            /\ on => /\ c.body.ctx = cb.run
                     /\ cb.threads[c.thread] = cb.run
            /\ ~on => /\ c.body.ctx = c.ctxBefore
                      /\ cb.threads[c.thread] = c.ctxBefore

C10_Witness ==
    /\ cb.phase = "called"
    /\ cb.lastCall.thread = "worker-1"
    /\ cb.lastCall.name = on_tool_end
    /\ cb.lastCall.ctxBefore = 1
    /\ cb.lastCall.body.ctx = 2

====
